---- MODULE Spec2Model ----
(***************************************************************************)
(* Model of the RoboCup reinforcement-learning environment.                *)
(*                                                                         *)
(*  - src/robocup.py: the capture state machine kept in module globals     *)
(*    (capture, capture_*_body, capture_anchor, joint), written by the     *)
(*    contact listener and by RoboCup.step / shoot / reset.                *)
(*  - src/robocup_env/envs/collect.py: RoboCupCollect.task_logic, the      *)
(*    reward / termination function of the collect task, and task_reset.   *)
(*  - src/robocup.py: RoboCup.seed and the sampling of the initial state,  *)
(*    and RoboCup._applyBallFriction.                                      *)
(*                                                                         *)
(* Each part has its own specification (Spec, SpecCollect, SpecSeed,       *)
(* SpecFriction, SpecBonus, SpecEpisode, SpecTaskReset); a specification   *)
(* leaves the variables of the other parts at their initial values.        *)
(*                                                                         *)
(* The rigid-body engine (Box2D) is not part of the repository.  It is     *)
(* modelled at its interface: it owns the set of joints, destroys the      *)
(* joints attached to a body it destroys, and during world.Step delivers   *)
(* an arbitrary bounded sequence of begin-contact events to the listener.  *)
(***************************************************************************)
EXTENDS Integers, FiniteSets, Sequences, TLC

(***************************************************************************)
(* Bounds of the model.                                                    *)
(***************************************************************************)
MaxContacts == 2    \* begin-contact events delivered inside one world.Step
MaxJoints   == 2    \* weld joints created over one run
MaxEpisodes == 2    \* calls of reset() after construction
MaxShots    == 1    \* shoot forces applied to one ball body
NumAnchors  == 2    \* distinct manifold points
MaxDelta    == 1    \* how far inputs of task_logic stray around a threshold
RngStates   == 3    \* states of a random source
MaxSeed     == 2    \* seed values 1..MaxSeed
MaxDraws    == 1    \* random draws made elsewhere in the process
MaxSpeed    == 8    \* largest velocity component handed to the friction
MaxMass     == 2    \* ball masses 1..MaxMass
MaxPowT     == 3    \* timesteps at which the terminal bonus is evaluated

\* Python's None, for each kind of value that can be None
None     == "None"                      \* a fixture's userData
NoJoint  == 0                           \* joint handles are 1, 2, ...
NoAnchor == 0                           \* anchors are 1, 2, ...
NoBody   == [kind |-> "none", ep |-> 0]

(***************************************************************************)
(* State of src/robocup.py.                                                *)
(***************************************************************************)
VARIABLES
    capture,             \* global capture (l.47)
    capture_ball_body,   \* global capture_ball_body (l.48)
    capture_robot_body,  \* global capture_robot_body (l.49)
    capture_anchor,      \* global capture_anchor (l.50)
    joint,               \* global joint (l.51): handle of the last weld
    worldJoints,         \* joints that exist in self.world
    jointCount,          \* joints created so far (allocates handles)
    ball,                \* self.ball: handle of the current ball body
    robot,               \* self.robot: handle of the current robot body
    episode,             \* number of the current episode (reset count)
    ballShootForces,     \* shoot forces applied to the current ball body
    pc,                  \* "idle" | "inWorldStep" | "crashed"
    tickContacts,        \* events delivered in the running world.Step
    lastOp,              \* the operation that produced this state
    lastContact,         \* the last contact handed to BeginContact
    stepLog              \* engine calls made by the current / last step()

(***************************************************************************)
(* State of one call of RoboCupCollect.task_logic.                         *)
(***************************************************************************)
VARIABLES
    config,              \* self.collect_config (with the base reward terms)
    dribbling_count,     \* aux_state.dribbling_count
    dribbling,           \* aux_state.dribbling
    kick_cooldown,       \* aux_state.kick_cooldown
    timestep,            \* self.timestep
    ball_position,       \* self.ball.position
    robot_position,      \* robot.position
    action,              \* the action passed in
    step_reward,         \* returned reward
    done,                \* returned done
    got_reward,          \* returned got_reward
    pcTask               \* "call" | "returned" | "off"

(***************************************************************************)
(* Random sources behind RoboCup.seed / RoboCup._create, for two           *)
(* environments that live in one process.                                  *)
(***************************************************************************)
VARIABLES
    np_random,           \* env -> state of self.np_random (l.157)
    globalRandom,        \* state of numpy's process-wide np.random
    spaceRandom,         \* env -> state of the source behind Box.sample
    seededWith,          \* env -> argument of the last seed(value) call
    initial_state,       \* env -> self.state sampled by the last reset
    phase,               \* env -> "constructed" | "seeded" | "reset" | "later"
    otherDraws           \* draws made elsewhere in the process

seedVars == <<np_random, globalRandom, spaceRandom, seededWith, initial_state,
              phase, otherDraws>>

(***************************************************************************)
(* Two calls of RoboCup._applyBallFriction on one ball.                    *)
(***************************************************************************)
VARIABLES
    mass,                \* self.ball.mass
    linearVelocity,      \* call -> self.ball.linearVelocity at that call
    friction,            \* call -> the force handed to ApplyForce
    frictionCalls        \* calls made so far

frictionVars == <<mass, linearVelocity, friction, frictionCalls>>

(***************************************************************************)
(* A second call of task_logic, on the same state at another timestep.     *)
(***************************************************************************)
VARIABLES
    later_timestep,      \* self.timestep at the second call (-1: no call)
    later_reward         \* reward returned by the second call

laterVars == <<later_timestep, later_reward>>

(***************************************************************************)
(* Calls of RoboCupCollect.task_reset on the sampled initial state.        *)
(***************************************************************************)
VARIABLES
    state,               \* self.state: BALL_X, BALL_Y, BALL_DX, BALL_DY
    state_before,        \* self.state before the last task_reset
    taskResets           \* calls of task_reset made so far

resetVars == <<state, state_before, taskResets>>

captureVars == <<capture, capture_ball_body, capture_robot_body, capture_anchor>>
envVars == <<capture, capture_ball_body, capture_robot_body, capture_anchor,
             joint, worldJoints, jointCount, ball, robot, episode,
             ballShootForces, pc, tickContacts, lastOp, lastContact,
             stepLog>>
taskVars == <<config, dribbling_count, dribbling, kick_cooldown, timestep,
              ball_position, robot_position, action, step_reward, done,
              got_reward, pcTask>>
restVars == <<seedVars, frictionVars, laterVars, resetVars>>
otherThanSeed == <<envVars, taskVars, frictionVars, laterVars, resetVars>>
otherThanFriction == <<envVars, taskVars, seedVars, laterVars, resetVars>>
otherThanReset == <<envVars, taskVars, seedVars, frictionVars, laterVars>>
vars == <<envVars, taskVars, restVars>>

(***************************************************************************)
(* Bodies, fixtures and contacts (src/robocup.py, _create).                *)
(***************************************************************************)
Fixtures == {"ball", "hull", "kicker", "wall"}

\* body.userData["id"] of the body a fixture belongs to
BodyId(f) == CASE f = "ball" -> 0
               [] f \in {"hull", "kicker"} -> 1
               [] OTHER -> 0 - 1

\* fixture.userData: only the kicker rectangle carries one
FixtureUserData(f) == IF f = "kicker" THEN "kicker" ELSE None

\* the body handle behind a fixture in the current episode
BodyOf(f) == [kind |-> IF BodyId(f) = 0 THEN "ball"
                       ELSE IF BodyId(f) = 1 THEN "robot" ELSE "wall",
              ep |-> episode]

Anchors == 1..NumAnchors

\* the contacts the engine can report: two fixtures of different bodies
Contacts == {c \in [touching : BOOLEAN, fixtureA : Fixtures,
                    fixtureB : Fixtures, point : Anchors] :
                BodyId(c.fixtureA) # BodyId(c.fixtureB)}

NoContact == [touching |-> FALSE, fixtureA |-> "wall", fixtureB |-> "wall",
              point |-> 1]

IsKickerBall(c) ==
    \/ c.fixtureA = "ball" /\ c.fixtureB = "kicker"
    \/ c.fixtureA = "kicker" /\ c.fixtureB = "ball"

JointIds == {j.id : j \in worldJoints}

(***************************************************************************)
(* CollisionDetector.BeginContact (l.62-83): the values the callback leaves *)
(* in the four capture globals.                                            *)
(***************************************************************************)
BeginContactResult_NoKickerCheck(c) ==
    LET a_id == BodyId(c.fixtureA)
        b_id == BodyId(c.fixtureB)
        same == [capture |-> capture, ball_body |-> capture_ball_body,
                 robot_body |-> capture_robot_body, anchor |-> capture_anchor]
    IN  IF ~c.touching THEN same
        ELSE IF ~((a_id = 0 /\ b_id = 1) \/ (a_id = 1 /\ b_id = 0)) THEN same
        ELSE LET ball_fixture  == IF a_id = 0 THEN c.fixtureA ELSE c.fixtureB
                 robot_fixture == IF a_id = 0 THEN c.fixtureB ELSE c.fixtureA
             IN  [capture |-> TRUE, ball_body |-> BodyOf(ball_fixture),
                  robot_body |-> BodyOf(robot_fixture), anchor |-> c.point]

BeginContactResult(c) ==
    LET a_id == BodyId(c.fixtureA)
        b_id == BodyId(c.fixtureB)
        same == [capture |-> capture, ball_body |-> capture_ball_body,
                 robot_body |-> capture_robot_body, anchor |-> capture_anchor]
    IN  IF ~c.touching THEN same
        ELSE IF ~((a_id = 0 /\ b_id = 1) \/ (a_id = 1 /\ b_id = 0)) THEN same
        ELSE LET ball_fixture  == IF a_id = 0 THEN c.fixtureA ELSE c.fixtureB
                 robot_fixture == IF a_id = 0 THEN c.fixtureB ELSE c.fixtureA
             IN  IF FixtureUserData(robot_fixture) = None THEN same
                 ELSE [capture |-> TRUE, ball_body |-> BodyOf(ball_fixture),
                       robot_body |-> BodyOf(robot_fixture),
                       anchor |-> c.point]

\* The callback, run by the engine while world.Step is executing.
BeginContact ==
    /\ pc = "inWorldStep"
    /\ tickContacts < MaxContacts
    /\ \E c \in Contacts :
         LET r == BeginContactResult(c)
         IN  /\ capture' = r.capture
             /\ capture_ball_body' = r.ball_body
             /\ capture_robot_body' = r.robot_body
             /\ capture_anchor' = r.anchor
             /\ lastContact' = c
    /\ tickContacts' = tickContacts + 1
    /\ lastOp' = "BeginContact"
    /\ UNCHANGED <<joint, worldJoints, jointCount, ball, robot, episode,
                   ballShootForces, pc, stepLog>>
    /\ UNCHANGED <<taskVars, restVars>>

(***************************************************************************)
(* RoboCup.step (l.265-293), split where the engine calls back.            *)
(***************************************************************************)
\* l.267-279: gather the state and enter self.world.Step
StepBegin ==
    /\ pc = "idle"
    /\ pc' = "inWorldStep"
    /\ tickContacts' = 0
    /\ lastOp' = "stepBegin"
    /\ stepLog' = <<"world.Step">>
    /\ UNCHANGED <<capture, capture_ball_body, capture_robot_body,
                   capture_anchor, joint, worldJoints, jointCount, ball,
                   robot, episode, ballShootForces, lastContact>>
    /\ UNCHANGED <<taskVars, restVars>>

\* l.285-289 with the weld released on a tick without a new capture (a
\* deviation used to test the properties below)
StepFinish_DropsWeld ==
    /\ pc = "inWorldStep"
    /\ IF capture
       THEN /\ jointCount < MaxJoints
            /\ jointCount' = jointCount + 1
            /\ worldJoints' = worldJoints \cup
                   {[id |-> jointCount + 1, bodyA |-> capture_robot_body,
                     bodyB |-> capture_ball_body, anchor |-> capture_anchor]}
            /\ joint' = jointCount + 1
            /\ capture' = FALSE
       ELSE /\ worldJoints' = {}
            /\ joint' = NoJoint
            /\ UNCHANGED <<jointCount, capture>>
    /\ stepLog' = stepLog \o <<"ApplyForce">>
                      \o (IF capture THEN <<"CreateJoint">> ELSE << >>)
    /\ pc' = "idle"
    /\ lastOp' = "step"
    /\ UNCHANGED <<capture_ball_body, capture_robot_body, capture_anchor,
                   ball, robot, episode, ballShootForces, tickContacts,
                   lastContact>>
    /\ UNCHANGED <<taskVars, restVars>>

\* l.285-289 without the assignment capture = False (a deviation used to
\* test the properties below)
StepFinish_KeepsCapture ==
    /\ pc = "inWorldStep"
    /\ IF capture
       THEN /\ jointCount < MaxJoints
            /\ jointCount' = jointCount + 1
            /\ worldJoints' = worldJoints \cup
                   {[id |-> jointCount + 1, bodyA |-> capture_robot_body,
                     bodyB |-> capture_ball_body, anchor |-> capture_anchor]}
            /\ joint' = jointCount + 1
            /\ capture' = capture
       ELSE UNCHANGED <<jointCount, worldJoints, joint, capture>>
    /\ stepLog' = stepLog \o <<"ApplyForce">>
                      \o (IF capture THEN <<"CreateJoint">> ELSE << >>)
    /\ pc' = "idle"
    /\ lastOp' = "step"
    /\ UNCHANGED <<capture_ball_body, capture_robot_body, capture_anchor,
                   ball, robot, episode, ballShootForces, tickContacts,
                   lastContact>>
    /\ UNCHANGED <<taskVars, restVars>>

\* l.279-293: world.Step returns, the friction force is applied to the ball
\* (l.281), then a pending capture becomes a weld joint (l.285-289)
StepFinish ==
    /\ pc = "inWorldStep"
    /\ IF capture
       THEN /\ jointCount < MaxJoints
            /\ jointCount' = jointCount + 1
            /\ worldJoints' = worldJoints \cup
                   {[id |-> jointCount + 1, bodyA |-> capture_robot_body,
                     bodyB |-> capture_ball_body, anchor |-> capture_anchor]}
            /\ joint' = jointCount + 1
            /\ capture' = FALSE
       ELSE UNCHANGED <<jointCount, worldJoints, joint, capture>>
    /\ stepLog' = stepLog \o <<"ApplyForce">>
                      \o (IF capture THEN <<"CreateJoint">> ELSE << >>)
    /\ pc' = "idle"
    /\ lastOp' = "step"
    /\ UNCHANGED <<capture_ball_body, capture_robot_body, capture_anchor,
                   ball, robot, episode, ballShootForces, tickContacts,
                   lastContact>>
    /\ UNCHANGED <<taskVars, restVars>>

(***************************************************************************)
(* RoboCup.shoot (l.295-302).                                              *)
(***************************************************************************)
Shoot ==
    /\ pc = "idle"
    /\ lastOp' = "shoot"
    /\ IF joint = NoJoint
       THEN UNCHANGED <<joint, worldJoints, ballShootForces, pc>>
       ELSE IF joint \in JointIds
       THEN /\ ballShootForces < MaxShots
            /\ worldJoints' = {j \in worldJoints : j.id # joint}
            /\ joint' = NoJoint
            /\ ballShootForces' = ballShootForces + 1
            /\ pc' = pc
       ELSE \* the handle names a joint the engine already freed:
            \* DestroyJoint on it is undefined; it may abort the process
            \* or appear to work
            \/ /\ pc' = "crashed"
               /\ UNCHANGED <<joint, worldJoints, ballShootForces>>
            \/ /\ ballShootForces < MaxShots
               /\ joint' = NoJoint
               /\ ballShootForces' = ballShootForces + 1
               /\ UNCHANGED <<worldJoints, pc>>
    /\ UNCHANGED <<capture, capture_ball_body, capture_robot_body,
                   capture_anchor, jointCount, ball, robot, episode,
                   tickContacts, lastContact, stepLog>>
    /\ UNCHANGED <<taskVars, restVars>>

(***************************************************************************)
(* RoboCup.reset (l.304-308): _destroy (l.160-171) then _create (l.173).   *)
(***************************************************************************)
Reset ==
    /\ pc = "idle"
    /\ episode < MaxEpisodes
    /\ episode' = episode + 1
    \* DestroyBody removes the joints attached to the destroyed body
    /\ worldJoints' = {j \in worldJoints :
                          j.bodyA \notin {ball, robot} /\
                          j.bodyB \notin {ball, robot}}
    \* _create: fresh bodies, no force applied yet
    /\ ball' = [kind |-> "ball", ep |-> episode + 1]
    /\ robot' = [kind |-> "robot", ep |-> episode + 1]
    /\ ballShootForces' = 0
    /\ lastOp' = "reset"
    \* the module globals are not touched by reset
    /\ UNCHANGED <<capture, capture_ball_body, capture_robot_body,
                   capture_anchor, joint, jointCount, pc, tickContacts,
                   lastContact, stepLog>>
    /\ UNCHANGED <<taskVars, restVars>>

(***************************************************************************)
(* RoboCupCollect.task_logic (src/robocup_env/envs/collect.py, l.72-117).  *)
(*                                                                         *)
(* Fixed-point units: positions in quarters of a field unit, rewards in    *)
(* fortieths.  A reward is the exact value                                 *)
(*     lin + coeff * done_reward_exp_base ^ exp                            *)
(* kept as the record [lin, coeff, exp] (coeff = 0 when there is no        *)
(* exponential term), so that no power has to be rounded.                  *)
(***************************************************************************)
FIELD_MIN_X == 0 - 8     \* -4.0 * FIELD_SCALE = -2.0
FIELD_MAX_X == 8         \*  4.0 * FIELD_SCALE =  2.0
FIELD_MIN_Y == 0 - 5     \* -2.5 * FIELD_SCALE = -1.25
FIELD_MAX_Y == 5         \*  2.5 * FIELD_SCALE =  1.25

max_timesteps == 300     \* base_config.max_timesteps set by __init__

\* CollectConfig() with its default arguments; move_reward and turn_penalty
\* are the two terms task_logic reads from the base reward configuration
DefaultConfig ==
    [dribble_count_done |-> 100,
     dribbling_reward |-> 40,
     done_reward_additive |-> 0,
     done_reward_coeff |-> 20000,
     survival_reward |-> 20,
     ball_out_of_bounds_reward |-> 0 - 4000,
     distance_to_ball_coeff |-> 0 - 1,
     move_reward |-> 0 - 2,
     turn_penalty |-> 2,
     done_reward_exp_base |-> <<499, 500>>]      \* 0.998 as a fraction

\* configurations a caller passes to RoboCupCollect
Configs ==
    { DefaultConfig,
      [DefaultConfig EXCEPT !.move_reward = 0,
                            !.done_reward_additive = 40],
      [DefaultConfig EXCEPT !.dribble_count_done = 3,
                            !.ball_out_of_bounds_reward = 0 - 40,
                            !.survival_reward = 0,
                            !.dribbling_reward = 80] }

Around(v) == {v + k : k \in (0 - MaxDelta)..MaxDelta}

\* [fx, fy, torque, kick_intent]
Actions == { <<0, 0, 0, 0>>, <<1, 0 - 1, 0, 0>>, <<0, 0, 1, 1>>,
             <<0 - 1, 1, 0 - 1, 1>> }

RobotPositions == { <<2, 0>>, <<0 - 4, 3>> }

Reward(lin, coeff, exp) ==
    IF coeff = 0 THEN [lin |-> lin, coeff |-> 0, exp |-> 0]
    ELSE [lin |-> lin, coeff |-> coeff, exp |-> exp]

\* integer part of the square root
ISqrt(n) == CHOOSE r \in 0..n : r * r <= n /\ (r + 1) * (r + 1) > n

\* l.89-90
Dist(rp, bp) ==
    ISqrt((rp[1] - bp[1]) * (rp[1] - bp[1]) + (rp[2] - bp[2]) * (rp[2] - bp[2]))

\* l.84
DoneDribbled(cfg, dc) == dc >= cfg.dribble_count_done

\* l.92-102 with the dribbling branch tested before dribble completion (a
\* deviation used to test the properties below)
BaseReward_DribblingFirst(cfg, dc, drib, t, rp, bp, act) ==
    LET survival == cfg.survival_reward
        penalty  == cfg.move_reward *
                      (act[1] * act[1] + act[2] * act[2]
                         + cfg.turn_penalty * act[3] * act[3]
                         + act[4] * act[4])
    IN  IF drib
        THEN Reward(survival + cfg.dribbling_reward + penalty, 0, 0)
        ELSE IF DoneDribbled(cfg, dc)
        THEN Reward(survival + cfg.done_reward_additive + penalty,
                    cfg.done_reward_coeff, t)
        ELSE Reward(survival + cfg.distance_to_ball_coeff * Dist(rp, bp)
                      + penalty, 0, 0)

\* l.92-102: the reward before the overrides
BaseReward(cfg, dc, drib, t, rp, bp, act) ==
    LET survival == cfg.survival_reward
        penalty  == cfg.move_reward *
                      (act[1] * act[1] + act[2] * act[2]
                         + cfg.turn_penalty * act[3] * act[3]
                         + act[4] * act[4])
    IN  IF DoneDribbled(cfg, dc)
        THEN Reward(survival + cfg.done_reward_additive + penalty,
                    cfg.done_reward_coeff, t)
        ELSE IF drib /\ ~DoneDribbled(cfg, dc)
        THEN Reward(survival + cfg.dribbling_reward + penalty, 0, 0)
        ELSE Reward(survival + cfg.distance_to_ball_coeff * Dist(rp, bp)
                      + penalty, 0, 0)

\* l.105-108
BallOutOfBounds_Inclusive(bp) ==
    \/ bp[1] <= FIELD_MIN_X
    \/ bp[1] >= FIELD_MAX_X
    \/ bp[2] <= FIELD_MIN_Y
    \/ bp[2] >= FIELD_MAX_Y

BallOutOfBounds(bp) ==
    \/ bp[1] < FIELD_MIN_X
    \/ bp[1] > FIELD_MAX_X
    \/ bp[2] < FIELD_MIN_Y
    \/ bp[2] > FIELD_MAX_Y

\* l.113
TimeLimitExceeded_Inclusive(t) == t >= max_timesteps

TimeLimitExceeded_Never(t) == FALSE

TimeLimitExceeded(t) == t > max_timesteps

\* l.86-87
GotReward_FromDone(cfg, dc, t, bp) ==
    DoneDribbled(cfg, dc) \/ BallOutOfBounds(bp) \/ TimeLimitExceeded(t)

GotReward(cfg, dc, t, bp) == DoneDribbled(cfg, dc)

\* l.104-110: the out-of-bounds override applied to (reward, done)
OutOfBoundsOverride(cfg, r, bp) ==
    IF ~r.done /\ BallOutOfBounds(bp)
    THEN [reward |-> Reward(cfg.ball_out_of_bounds_reward, 0, 0),
          done |-> TRUE]
    ELSE r

\* l.112-115: the time-limit override applied to (reward, done)
TimeoutOverride_OnlyIfNotDone(r, t) ==
    IF ~r.done /\ TimeLimitExceeded(t)
    THEN [reward |-> Reward(0, 0, 0), done |-> TRUE]
    ELSE r

TimeoutOverride(r, t) ==
    IF TimeLimitExceeded(t)
    THEN [reward |-> Reward(0, 0, 0), done |-> TRUE]
    ELSE r

\* l.84-117: the tuple (step_reward, done, got_reward) computed from the
\* values task_logic reads
TaskLogicOn(cfg, dc, drib, t, rp, bp, act) ==
    LET r0 == [reward |-> BaseReward(cfg, dc, drib, t, rp, bp, act),
               done |-> DoneDribbled(cfg, dc)]
        r1 == OutOfBoundsOverride(cfg, r0, bp)
        r2 == TimeoutOverride(r1, t)
    IN  [step_reward |-> r2.reward,
         done |-> r2.done,
         got_reward |-> GotReward(cfg, dc, t, bp)]

\* the tuple returned on the current state at timestep t
TaskLogicReturn(t) ==
    TaskLogicOn(config, dribbling_count, dribbling, t, robot_position,
                ball_position, action)

\* l.79-117: the whole call
TaskLogic ==
    /\ pcTask = "call"
    /\ LET r == TaskLogicReturn(timestep)
       IN  /\ step_reward' = r.step_reward
           /\ done' = r.done
           /\ got_reward' = r.got_reward
    /\ kick_cooldown' = 0
    /\ pcTask' = "returned"
    /\ UNCHANGED <<config, dribbling_count, dribbling, timestep,
                   ball_position, robot_position, action>>
    /\ UNCHANGED <<envVars, restVars>>

NoLater == 0 - 1

\* l.79-117: the call repeated on the same state at timestep later_timestep
TaskLogicLater ==
    /\ pcTask = "returned"
    /\ later_timestep # NoLater
    /\ later_reward' = TaskLogicReturn(later_timestep).step_reward
    /\ pcTask' = "returnedLater"
    /\ UNCHANGED <<config, dribbling_count, dribbling, kick_cooldown,
                   timestep, ball_position, robot_position, action,
                   step_reward, done, got_reward, later_timestep>>
    /\ UNCHANGED <<envVars, seedVars, frictionVars, resetVars>>

\* b ^ n
RECURSIVE Pow(_, _)
Pow(b, n) == IF n = 0 THEN 1 ELSE b * Pow(b, n - 1)

\* the number a reward record stands for, as a fraction, for the exponent
\* base num / den of the configuration (l.94-95)
Value(r, base) ==
    [num |-> r.lin * Pow(base[2], r.exp) + r.coeff * Pow(base[1], r.exp),
     den |-> Pow(base[2], r.exp)]

LaterOff ==
    /\ later_timestep = NoLater
    /\ later_reward = Reward(0, 0, 0)

(***************************************************************************)
(* RoboCup.seed (src/robocup.py l.156-158) and the sampling of the initial *)
(* state in RoboCup._create (l.175): observation_space.sample() draws the  *)
(* positions from the Box spaces and the velocities from                   *)
(* VelocitySpace.sample (l.100-101), which calls np.random.randn.          *)
(*                                                                         *)
(* A random source is a state in 0..RngStates-1; a draw returns the state  *)
(* and moves to the next one.                                              *)
(***************************************************************************)
Envs == {"A", "B"}

RngSet == 0..(RngStates - 1)

Seeds == 1..MaxSeed

NextRng(s) == (s + 1) % RngStates

\* seeding.np_random(seed): the state is a function of the seed alone
SeedState(v) == v % RngStates

NoSeed == 0

NoState == [robot_pos |-> 0 - 1, robot_vel |-> 0 - 1,
            ball_pos |-> 0 - 1, ball_vel |-> 0 - 1]

\* l.156-158
Seed(e, v) ==
    /\ np_random' = [np_random EXCEPT ![e] = SeedState(v)]
    /\ seededWith' = [seededWith EXCEPT ![e] = v]
    /\ phase' = [phase EXCEPT ![e] = "seeded"]
    /\ UNCHANGED <<globalRandom, spaceRandom, initial_state, otherDraws>>
    /\ UNCHANGED otherThanSeed

\* l.100-101: the n-th velocity drawn by one reset, from np.random
VelocitySample(e, n) ==
    IF n = 1 THEN globalRandom ELSE NextRng(globalRandom)

\* Box.sample: the n-th position drawn by one reset, from the space's source
BoxSample(e, n) ==
    IF n = 1 THEN spaceRandom[e] ELSE NextRng(spaceRandom[e])

\* l.304-308 / l.175: reset samples robot (position, velocity) and ball
\* (position, velocity)
ResetSample(e) ==
    /\ initial_state' =
          [initial_state EXCEPT ![e] =
              [robot_pos |-> BoxSample(e, 1),
               robot_vel |-> VelocitySample(e, 1),
               ball_pos |-> BoxSample(e, 2),
               ball_vel |-> VelocitySample(e, 2)]]
    /\ spaceRandom' = [spaceRandom EXCEPT ![e] = NextRng(NextRng(@))]
    /\ globalRandom' = NextRng(NextRng(globalRandom))
    /\ phase' = [phase EXCEPT ![e] =
                    IF phase[e] = "seeded" THEN "reset" ELSE "later"]
    /\ UNCHANGED <<np_random, seededWith, otherDraws>>
    /\ UNCHANGED otherThanSeed

\* any other user of np.random in the process (the trainer's exploration
\* noise, train_td3.py l.176-178)
OtherDraw ==
    /\ otherDraws < MaxDraws
    /\ otherDraws' = otherDraws + 1
    /\ globalRandom' = NextRng(globalRandom)
    /\ UNCHANGED <<np_random, spaceRandom, seededWith, initial_state, phase>>
    /\ UNCHANGED otherThanSeed

(***************************************************************************)
(* RoboCup._applyBallFriction (src/robocup.py l.253-263).                  *)
(*                                                                         *)
(* Velocities are in units of 0.025, so the linear region 0.1 is 4.  Only  *)
(* velocities whose speed is a whole number are used, so that np.sqrt is   *)
(* exact.  A force is the vector (x / den, y / den) in units of mass times *)
(* acceleration, kept unreduced; den = 0 stands for a division by zero.    *)
(***************************************************************************)
FRICTION_LINEAR_REGION == 4

FrictionVelocities ==
    {v \in ((0 - MaxSpeed)..MaxSpeed) \X ((0 - MaxSpeed)..MaxSpeed) :
        \E r \in 0..(2 * MaxSpeed) : r * r = v[1] * v[1] + v[2] * v[2]}

Calls == 1..2

NoForce == [x |-> 0, y |-> 0, den |-> 1]

\* l.255-262 without the test of the linear region (a deviation used to
\* test the properties below)
FrictionForce_AlwaysScaled(m, v) ==
    LET ball_speed == ISqrt(v[1] * v[1] + v[2] * v[2])
    IN  [x |-> m * (0 - v[1]) * FRICTION_LINEAR_REGION,
         y |-> m * (0 - v[2]) * FRICTION_LINEAR_REGION,
         den |-> 2 * FRICTION_LINEAR_REGION * ball_speed]

\* l.255-262
FrictionForce(m, v) ==
    LET ball_speed == ISqrt(v[1] * v[1] + v[2] * v[2])
        \* -0.5 * v / FRICTION_LINEAR_REGION
        accel0 == [x |-> 0 - v[1], y |-> 0 - v[2],
                   den |-> 2 * FRICTION_LINEAR_REGION]
        \* friction_accel * FRICTION_LINEAR_REGION / ball_speed
        accel == IF ball_speed > FRICTION_LINEAR_REGION
                 THEN [x |-> accel0.x * FRICTION_LINEAR_REGION,
                       y |-> accel0.y * FRICTION_LINEAR_REGION,
                       den |-> accel0.den * ball_speed]
                 ELSE accel0
    IN  [x |-> m * accel.x, y |-> m * accel.y, den |-> accel.den]

\* l.253-263: one call
ApplyBallFriction ==
    /\ frictionCalls < 2
    /\ frictionCalls' = frictionCalls + 1
    /\ friction' = [friction EXCEPT ![frictionCalls + 1] =
                       FrictionForce(mass, linearVelocity[frictionCalls + 1])]
    /\ UNCHANGED <<mass, linearVelocity>>
    /\ UNCHANGED otherThanFriction

FrictionOff ==
    /\ mass = 1
    /\ linearVelocity = [i \in Calls |-> <<0, 0>>]
    /\ friction = [i \in Calls |-> NoForce]
    /\ frictionCalls = 0

(***************************************************************************)
(* RoboCupCollect.task_reset (collect.py l.43-70).  Positions in quarters  *)
(* of a field unit, velocities in tenths.                                  *)
(***************************************************************************)
buffer == 4              \* 1.0
speed_lim == 3           \* 0.3
total_speed_lim == 10    \* 1.0

Max2(a, b) == IF a >= b THEN a ELSE b
Min2(a, b) == IF a <= b THEN a ELSE b

\* np.clip(v, lo, np.inf), np.clip(v, -np.inf, hi), np.clip(v, lo, hi)
ClipBelow(v, lo) == Max2(v, lo)
ClipAbove(v, hi) == Min2(v, hi)
Clip(v, lo, hi) == Min2(Max2(v, lo), hi)

\* l.47-70 without the moves onto the buffer lines (a deviation used to
\* test the properties below)
TaskResetResult_NoMove(st) ==
    LET s1 == IF st.BALL_X <= FIELD_MIN_X + buffer
              THEN [st EXCEPT !.BALL_DX = ClipBelow(st.BALL_DX, 0 - speed_lim)]
              ELSE st
        s2 == IF s1.BALL_X >= FIELD_MAX_X - buffer
              THEN [s1 EXCEPT !.BALL_DX = ClipAbove(s1.BALL_DX, speed_lim)]
              ELSE s1
        s3 == IF s2.BALL_Y <= FIELD_MIN_Y + buffer
              THEN [s2 EXCEPT !.BALL_DY = ClipBelow(s2.BALL_DY, 0 - speed_lim)]
              ELSE s2
        s4 == IF s3.BALL_Y >= FIELD_MAX_Y - buffer
              THEN [s3 EXCEPT !.BALL_DY = ClipAbove(s3.BALL_DY, speed_lim)]
              ELSE s3
    IN  [s4 EXCEPT
           !.BALL_DX = Clip(s4.BALL_DX, 0 - total_speed_lim, total_speed_lim),
           !.BALL_DY = Clip(s4.BALL_DY, 0 - total_speed_lim, total_speed_lim)]

\* l.47-70: the state task_reset leaves
TaskResetResult(st) ==
    LET \* Left, l.47-50
        s1 == IF st.BALL_X <= FIELD_MIN_X + buffer
              THEN [st EXCEPT
                      !.BALL_X = IF st.BALL_DX < 0
                                 THEN FIELD_MIN_X + buffer ELSE st.BALL_X,
                      !.BALL_DX = ClipBelow(st.BALL_DX, 0 - speed_lim)]
              ELSE st
        \* Right, l.52-55
        s2 == IF s1.BALL_X >= FIELD_MAX_X - buffer
              THEN [s1 EXCEPT
                      !.BALL_X = IF s1.BALL_DX > 0
                                 THEN FIELD_MAX_X - buffer ELSE s1.BALL_X,
                      !.BALL_DX = ClipAbove(s1.BALL_DX, speed_lim)]
              ELSE s1
        \* Down, l.58-61
        s3 == IF s2.BALL_Y <= FIELD_MIN_Y + buffer
              THEN [s2 EXCEPT
                      !.BALL_Y = IF s2.BALL_DY < 0
                                 THEN FIELD_MIN_Y + buffer ELSE s2.BALL_Y,
                      !.BALL_DY = ClipBelow(s2.BALL_DY, 0 - speed_lim)]
              ELSE s2
        \* Up, l.63-66
        s4 == IF s3.BALL_Y >= FIELD_MAX_Y - buffer
              THEN [s3 EXCEPT
                      !.BALL_Y = IF s3.BALL_DY > 0
                                 THEN FIELD_MAX_Y - buffer ELSE s3.BALL_Y,
                      !.BALL_DY = ClipAbove(s3.BALL_DY, speed_lim)]
              ELSE s3
    \* l.68-70
    IN  [s4 EXCEPT
           !.BALL_DX = Clip(s4.BALL_DX, 0 - total_speed_lim, total_speed_lim),
           !.BALL_DY = Clip(s4.BALL_DY, 0 - total_speed_lim, total_speed_lim)]

\* l.43-70: one call
TaskReset ==
    /\ taskResets < 2
    /\ taskResets' = taskResets + 1
    /\ state_before' = state
    /\ state' = TaskResetResult(state)
    /\ UNCHANGED otherThanReset

ResetVelocities ==
    {0} \cup Around(speed_lim) \cup Around(0 - speed_lim)
        \cup Around(total_speed_lim) \cup Around(0 - total_speed_lim)

ResetOff ==
    /\ state = [BALL_X |-> 0, BALL_Y |-> 0, BALL_DX |-> 0, BALL_DY |-> 0]
    /\ state_before = state
    /\ taskResets = 0

SeedOff ==
    /\ np_random = [e \in Envs |-> 0]
    /\ globalRandom = 0
    /\ spaceRandom = [e \in Envs |-> 0]
    /\ seededWith = [e \in Envs |-> NoSeed]
    /\ initial_state = [e \in Envs |-> NoState]
    /\ phase = [e \in Envs |-> "constructed"]
    /\ otherDraws = 0

RestOff == SeedOff /\ FrictionOff /\ LaterOff /\ ResetOff

(***************************************************************************)
(* The state after RoboCup.__init__ (l.108-154), which ends with reset().  *)
(***************************************************************************)
TaskOff ==
    /\ config = DefaultConfig
    /\ dribbling_count = 0
    /\ dribbling = FALSE
    /\ kick_cooldown = 0
    /\ timestep = 0
    /\ ball_position = <<0, 0>>
    /\ robot_position = <<0, 0>>
    /\ action = <<0, 0, 0, 0>>
    /\ step_reward = Reward(0, 0, 0)
    /\ done = FALSE
    /\ got_reward = FALSE
    /\ pcTask = "off"

EnvInit ==
    /\ capture = FALSE
    /\ capture_ball_body = NoBody
    /\ capture_robot_body = NoBody
    /\ capture_anchor = NoAnchor
    /\ joint = NoJoint
    /\ worldJoints = {}
    /\ jointCount = 0
    /\ episode = 1
    /\ ball = [kind |-> "ball", ep |-> 1]
    /\ robot = [kind |-> "robot", ep |-> 1]
    /\ ballShootForces = 0
    /\ pc = "idle"
    /\ tickContacts = 0
    /\ lastOp = "init"
    /\ lastContact = NoContact
    /\ stepLog = << >>

Init == EnvInit /\ TaskOff /\ RestOff

Next ==
    \/ StepBegin
    \/ BeginContact
    \/ StepFinish
    \/ Shoot
    \/ Reset

Spec == Init /\ [][Next]_vars

(***************************************************************************)
(* One call of task_logic on any state of the collect task: the counters   *)
(* around their thresholds, the ball around the field lines.               *)
(***************************************************************************)
InitCollect ==
    /\ EnvInit
    /\ RestOff
    /\ config \in Configs
    /\ dribbling_count \in {0, 1} \cup Around(config.dribble_count_done)
    /\ dribbling = (dribbling_count > 0)
    /\ kick_cooldown \in {0, 1}
    /\ timestep \in {0} \cup Around(max_timesteps)
    /\ ball_position \in
          ({0} \cup Around(FIELD_MIN_X) \cup Around(FIELD_MAX_X)) \X
          ({0} \cup Around(FIELD_MIN_Y) \cup Around(FIELD_MAX_Y))
    /\ robot_position \in RobotPositions
    /\ action \in Actions
    /\ step_reward = Reward(0, 0, 0)
    /\ done = FALSE
    /\ got_reward = FALSE
    /\ pcTask = "call"

NextCollect == TaskLogic

SpecCollect == InitCollect /\ [][NextCollect]_vars

(***************************************************************************)
(* Two environments of one process, seeded and reset in any order, while   *)
(* other code draws from np.random.  Unseeded sources start anywhere.      *)
(***************************************************************************)
InitSeed ==
    /\ EnvInit
    /\ TaskOff
    /\ np_random \in [Envs -> RngSet]
    /\ globalRandom \in RngSet
    /\ spaceRandom \in [Envs -> RngSet]
    /\ seededWith = [e \in Envs |-> NoSeed]
    /\ initial_state = [e \in Envs |-> NoState]
    /\ phase = [e \in Envs |-> "constructed"]
    /\ otherDraws = 0
    /\ FrictionOff
    /\ LaterOff
    /\ ResetOff

NextSeed ==
    \/ \E e \in Envs, v \in Seeds : Seed(e, v)
    \/ \E e \in Envs : ResetSample(e)
    \/ OtherDraw

SpecSeed == InitSeed /\ [][NextSeed]_vars

(***************************************************************************)
(* The friction applied to one ball at two velocities.                     *)
(***************************************************************************)
InitFriction ==
    /\ EnvInit
    /\ TaskOff
    /\ SeedOff
    /\ LaterOff
    /\ ResetOff
    /\ mass \in 1..MaxMass
    /\ linearVelocity \in [Calls -> FrictionVelocities]
    /\ friction = [i \in Calls |-> NoForce]
    /\ frictionCalls = 0

NextFriction == ApplyBallFriction

SpecFriction == InitFriction /\ [][NextFriction]_vars

(***************************************************************************)
(* task_logic called twice on one state, at two timesteps, for             *)
(* configurations whose exponent base and coefficients vary.               *)
(***************************************************************************)
ExpBases == { <<1, 2>>, <<2, 3>>, <<1, 1>>, <<0, 1>> }

BonusConfigs ==
    { [DefaultConfig EXCEPT !.dribble_count_done = 2,
                            !.done_reward_coeff = c,
                            !.done_reward_additive = a,
                            !.done_reward_exp_base = b] :
        c \in {0, 40}, a \in {0, 40}, b \in ExpBases }

InitBonus ==
    /\ EnvInit
    /\ SeedOff
    /\ FrictionOff
    /\ ResetOff
    /\ config \in BonusConfigs
    /\ dribbling_count \in {0} \cup Around(config.dribble_count_done)
    /\ dribbling = (dribbling_count > 0)
    /\ kick_cooldown = 0
    /\ timestep \in 0..MaxPowT
    /\ later_timestep \in 0..MaxPowT
    /\ ball_position \in { <<0, 0>>, <<3, 4>>, <<FIELD_MAX_X + 1, 0>> }
    /\ robot_position \in RobotPositions
    /\ action \in Actions
    /\ step_reward = Reward(0, 0, 0)
    /\ later_reward = Reward(0, 0, 0)
    /\ done = FALSE
    /\ got_reward = FALSE
    /\ pcTask = "call"

NextBonus ==
    \/ TaskLogic
    \/ TaskLogicLater

SpecBonus == InitBonus /\ [][NextBonus]_vars

(***************************************************************************)
(* One episode of the collect task as its caller drives it (eval_policy,   *)
(* src/train_td3.py l.31-39): reset, then step until done.  The step of    *)
(* the base environment is described by the specification (4.5, 4.6): it   *)
(* advances the physics, updates dribbling and dribbling_count, calls      *)
(* task_logic and increments the timestep.                                 *)
(***************************************************************************)
EpisodeBallPositions == { <<0, 0>>, <<FIELD_MAX_X + 1, 0>> }

\* reset(): AuxRobotState and the timestep counter start again
EpisodeReset ==
    /\ pcTask = "episode"
    /\ done
    /\ dribbling_count' = 0
    /\ dribbling' = FALSE
    /\ kick_cooldown' = 0
    /\ timestep' = 0
    /\ ball_position' = <<0, 0>>
    /\ step_reward' = Reward(0, 0, 0)
    /\ done' = FALSE
    /\ got_reward' = FALSE
    /\ UNCHANGED <<config, robot_position, action, pcTask>>
    /\ UNCHANGED <<envVars, restVars>>

\* step(action) while the episode is running
EpisodeStep ==
    /\ pcTask = "episode"
    /\ ~done
    /\ timestep <= max_timesteps + 1
    /\ \E bp \in EpisodeBallPositions, drib \in BOOLEAN :
         LET dc == IF drib THEN dribbling_count + 1 ELSE 0
             r  == TaskLogicOn(config, dc, drib, timestep, robot_position,
                               bp, action)
         IN  /\ ball_position' = bp
             /\ dribbling' = drib
             /\ dribbling_count' = dc
             /\ step_reward' = r.step_reward
             /\ done' = r.done
             /\ got_reward' = r.got_reward
    /\ kick_cooldown' = 0
    /\ timestep' = timestep + 1
    /\ UNCHANGED <<config, robot_position, action, pcTask>>
    /\ UNCHANGED <<envVars, restVars>>

InitEpisode ==
    /\ EnvInit
    /\ RestOff
    /\ config \in Configs
    /\ dribbling_count = 0
    /\ dribbling = FALSE
    /\ kick_cooldown = 0
    /\ timestep = 0
    /\ ball_position = <<0, 0>>
    /\ robot_position = <<2, 0>>
    /\ action = <<1, 0 - 1, 0, 0>>
    /\ step_reward = Reward(0, 0, 0)
    /\ done = FALSE
    /\ got_reward = FALSE
    /\ pcTask = "episode"

NextEpisode ==
    \/ EpisodeStep
    \/ EpisodeReset

\* the caller's loop keeps calling step while done is false
SpecEpisode == InitEpisode /\ [][NextEpisode]_vars /\ WF_vars(EpisodeStep)

(***************************************************************************)
(* task_reset applied twice to any sampled ball state inside the field.    *)
(***************************************************************************)
InitTaskReset ==
    /\ EnvInit
    /\ TaskOff
    /\ SeedOff
    /\ FrictionOff
    /\ LaterOff
    /\ state \in [BALL_X : FIELD_MIN_X..FIELD_MAX_X,
                  BALL_Y : FIELD_MIN_Y..FIELD_MAX_Y,
                  BALL_DX : ResetVelocities,
                  BALL_DY : ResetVelocities]
    /\ state_before = state
    /\ taskResets = 0

NextTaskReset == TaskReset

SpecTaskReset == InitTaskReset /\ [][NextTaskReset]_vars

(***************************************************************************)
(* Properties of the capture state machine, checked under Spec.            *)
(***************************************************************************)

\* C1: after any sequence of reset, step (with the begin-contact events
\* delivered during it) and shoot, at most one weld joint exists in the
\* world.
C1_AtMostOneWeld == Cardinality(worldJoints) <= 1

\* C2: a touching kicker/ball begin-contact that arrives while a capture is
\* pending or a weld is active changes neither the recorded anchor and
\* bodies nor the set of joints: the callback leaves them alone, and the
\* step that ends a tick started with a weld adds no joint.
C2_LaterContactIsNoOp ==
    [][ /\ ( /\ lastOp' = "BeginContact"
             /\ lastContact'.touching
             /\ IsKickerBall(lastContact')
             /\ (capture \/ worldJoints # {}) )
           => /\ capture_anchor' = capture_anchor
              /\ capture_ball_body' = capture_ball_body
              /\ capture_robot_body' = capture_robot_body
              /\ worldJoints' = worldJoints
        /\ (lastOp' = "step" /\ worldJoints # {})
           => worldJoints' = worldJoints ]_vars

\* C3: shoot() with a weld active leaves no weld joint in the world;
\* shoot() with no weld active raises no error and leaves the joints, the
\* capture flag and the ball (its body and the forces on it) unchanged.
C3_ShootClearsOrNoOp ==
    [][ lastOp' = "shoot" =>
          IF worldJoints # {}
          THEN worldJoints' = {} /\ pc' # "crashed"
          ELSE /\ pc' # "crashed"
               /\ worldJoints' = worldJoints
               /\ capture' = capture
               /\ ball' = ball
               /\ ballShootForces' = ballShootForces ]_vars

\* C4: a begin-contact event makes a capture pending exactly when it is
\* touching and pairs the ball with the kicker fixture (in either order),
\* recording its point and the two bodies; every other event leaves the
\* capture flag, the anchor and the body references unchanged.
C4_OnlyKickerBallCaptures ==
    [][ lastOp' = "BeginContact" =>
          IF lastContact'.touching /\ IsKickerBall(lastContact')
          THEN /\ capture'
               /\ capture_anchor' = lastContact'.point
               /\ capture_ball_body' = ball
               /\ capture_robot_body' = robot
          ELSE UNCHANGED captureVars ]_vars

\* a touching ball/hull contact was delivered and no capture is pending
C4_Witness ==
    /\ lastOp = "BeginContact"
    /\ lastContact.touching
    /\ lastContact.fixtureA = "hull"
    /\ lastContact.fixtureB = "ball"
    /\ ~capture

\* C5: after reset no capture is pending, no weld joint exists and no handle
\* to a joint (destroyed or not) is held.
C5_ResetReturnsToFree ==
    lastOp = "reset" => ~capture /\ worldJoints = {} /\ joint = NoJoint

\* C6: every weld joint in the world survives every step and every contact
\* event; joints disappear only in shoot() or reset(), and reset() leaves a
\* fresh ball body with no shoot force applied to it.
C6_WeldPersists ==
    [][ /\ (lastOp' \notin {"shoot", "reset"})
           => worldJoints \subseteq worldJoints'
        /\ (lastOp' = "reset")
           => ballShootForces' = 0 /\ ball' # ball /\ worldJoints' = {} ]_vars

\* a weld created in an earlier tick is still there while the next tick
\* delivers a kicker/ball contact
C6_Witness ==
    /\ worldJoints # {}
    /\ lastOp = "BeginContact"
    /\ lastContact.touching
    /\ IsKickerBall(lastContact)

\* a step adds exactly one joint to the world
AddsOneWeld ==
    /\ worldJoints \subseteq worldJoints'
    /\ Cardinality(worldJoints') = Cardinality(worldJoints) + 1

\* C13 as stated: a weld appears only at the start of a step call, before
\* that step's friction, and the capture flag is cleared only there.
C13_Original ==
    [][ /\ (worldJoints' \ worldJoints # {}) => lastOp' = "stepBegin"
        /\ (capture /\ ~capture') => lastOp' = "stepBegin" ]_vars

\* C13 amended: a capture set by the callback inside world.Step becomes a
\* weld at the end of the same step call, after world.Step has returned and
\* after the friction force was applied.  The callback never creates a
\* joint and only sets the flag; only the end of a step clears it; a step
\* that ends with a pending capture adds exactly one weld, any other adds
\* none.
C13_WeldAtEndOfStep ==
    [][ /\ (worldJoints' \ worldJoints # {})
           => /\ lastOp' = "step"
              /\ capture
              /\ stepLog' = <<"world.Step", "ApplyForce", "CreateJoint">>
        /\ lastOp' = "BeginContact"
           => worldJoints' = worldJoints /\ (capture => capture')
        /\ (~capture /\ capture') => lastOp' = "BeginContact"
        /\ (capture /\ ~capture') => lastOp' = "step"
        /\ lastOp' = "step"
           => /\ ~capture'
              /\ IF capture THEN AddsOneWeld
                            ELSE worldJoints' = worldJoints ]_vars

\* a step has ended with a weld made from the capture of its own world.Step
C13_Witness ==
    /\ lastOp = "step"
    /\ stepLog = <<"world.Step", "ApplyForce", "CreateJoint">>
    /\ IsKickerBall(lastContact)
    /\ joint \in JointIds
    /\ ~capture

(***************************************************************************)
(* Properties of task_logic, checked under SpecCollect.  The conditions    *)
(* are written out from the inputs, not through the operators above.       *)
(***************************************************************************)
Returned == pcTask = "returned"

DribbleComplete == dribbling_count >= config.dribble_count_done

StrictlyOutside ==
    \/ ball_position[1] < FIELD_MIN_X
    \/ ball_position[1] > FIELD_MAX_X
    \/ ball_position[2] < FIELD_MIN_Y
    \/ ball_position[2] > FIELD_MAX_Y

OnFieldLine ==
    /\ ~StrictlyOutside
    /\ \/ ball_position[1] \in {FIELD_MIN_X, FIELD_MAX_X}
       \/ ball_position[2] \in {FIELD_MIN_Y, FIELD_MAX_Y}

ActionPenalty ==
    config.move_reward *
       (action[1] * action[1] + action[2] * action[2]
          + config.turn_penalty * action[3] * action[3]
          + action[4] * action[4])

TerminalBonus ==
    Reward(config.survival_reward + config.done_reward_additive
             + ActionPenalty,
           config.done_reward_coeff, timestep)

OutOfBoundsPenalty == Reward(config.ball_out_of_bounds_reward, 0, 0)

ZeroReward == Reward(0, 0, 0)

\* C7: done and got_reward are both true exactly on the calls with
\* dribbling_count >= dribble_count_done; below the threshold got_reward is
\* false, and got_reward implies done.
C7_GotRewardIffDribbleDone ==
    Returned =>
        /\ (done /\ got_reward) <=> DribbleComplete
        /\ ~DribbleComplete => ~got_reward
        /\ got_reward => done

\* an out-of-bounds termination before dribble completion, without reward flag
C7_Witness ==
    /\ Returned
    /\ ~DribbleComplete
    /\ StrictlyOutside
    /\ done
    /\ ~got_reward

\* C8 as stated: before dribble completion, a ball strictly outside the
\* field gives done and exactly the out-of-bounds reward, whatever the other
\* inputs; a ball on a field line does not.
C8_Original ==
    Returned /\ ~DribbleComplete =>
        /\ StrictlyOutside => done /\ step_reward = OutOfBoundsPenalty
        /\ (OnFieldLine /\ timestep <= max_timesteps) => ~done

\* C8 amended: the same, provided the time limit is not exceeded.
C8_OutOfBoundsOverride ==
    Returned /\ ~DribbleComplete /\ timestep <= max_timesteps =>
        /\ StrictlyOutside => done /\ step_reward = OutOfBoundsPenalty
        /\ OnFieldLine => ~done

C8_Witness ==
    /\ Returned
    /\ ~DribbleComplete
    /\ timestep <= max_timesteps
    /\ StrictlyOutside
    /\ dribbling
    /\ action # <<0, 0, 0, 0>>
    /\ step_reward = OutOfBoundsPenalty

\* C9: with timestep > max_timesteps the call returns done and reward 0;
\* with timestep = max_timesteps the time limit does not end the episode.
C9_Timeout ==
    Returned =>
        /\ timestep > max_timesteps => done /\ step_reward = ZeroReward
        /\ (timestep = max_timesteps /\ ~DribbleComplete /\ ~StrictlyOutside)
           => ~done

C9_Witness ==
    /\ Returned
    /\ timestep = max_timesteps + 1
    /\ done
    /\ step_reward = ZeroReward

\* C10 as stated: dribble completion returns the terminal bonus even when
\* the ball is out of bounds or the time limit is exceeded, and an
\* out-of-bounds ball returns the penalty even when the time limit is
\* exceeded.
C10_Original ==
    Returned =>
        /\ DribbleComplete => done /\ step_reward = TerminalBonus
        /\ (~DribbleComplete /\ StrictlyOutside)
           => done /\ step_reward = OutOfBoundsPenalty

\* C10 amended: the reward follows the order timeout > dribble-done >
\* out-of-bounds.  Past the time limit the reward is 0; otherwise dribble
\* completion returns the terminal bonus even with the ball out of bounds;
\* otherwise an out-of-bounds ball returns the penalty.
C10_PriorityOrder ==
    Returned =>
        /\ timestep > max_timesteps => done /\ step_reward = ZeroReward
        /\ (timestep <= max_timesteps /\ DribbleComplete)
           => done /\ step_reward = TerminalBonus
        /\ (timestep <= max_timesteps /\ ~DribbleComplete /\ StrictlyOutside)
           => done /\ step_reward = OutOfBoundsPenalty

\* dribble completion past the time limit with the ball out of bounds
C10_Witness ==
    /\ Returned
    /\ DribbleComplete
    /\ StrictlyOutside
    /\ timestep > max_timesteps
    /\ got_reward
    /\ step_reward = ZeroReward

(***************************************************************************)
(* Properties of seeding, checked under SpecSeed.                          *)
(***************************************************************************)

\* C11: two environments that were given the same seed and then reset hold
\* identical initial robot and ball states, whatever was drawn elsewhere.
C11_SameSeedSameReset ==
    \A e1, e2 \in Envs :
        (phase[e1] = "reset" /\ phase[e2] = "reset"
           /\ seededWith[e1] = seededWith[e2])
        => initial_state[e1] = initial_state[e2]

(***************************************************************************)
(* Properties of the ball friction, checked under SpecFriction.            *)
(* Magnitudes are compared through their squares.                          *)
(***************************************************************************)
SpeedSq(i) == linearVelocity[i][1] * linearVelocity[i][1]
                + linearVelocity[i][2] * linearVelocity[i][2]

RegionSq == FRICTION_LINEAR_REGION * FRICTION_LINEAR_REGION

\* numerator of the squared magnitude of the force of call i
ForceSq(i) == friction[i].x * friction[i].x + friction[i].y * friction[i].y

DenSq(i) == friction[i].den * friction[i].den

\* C12: the friction force is defined (no division by zero), is zero at
\* velocity zero, points opposite the velocity, has magnitude
\* mass*0.5*speed/0.1 up to speed 0.1 (strictly increasing there) and
\* mass*0.5 above, the two agreeing at speed 0.1, and never exceeds mass*0.5.
C12_Friction ==
    /\ \A i \in 1..frictionCalls :
        /\ friction[i].den > 0
        /\ linearVelocity[i] = <<0, 0>>
              => friction[i].x = 0 /\ friction[i].y = 0
        /\ friction[i].x * linearVelocity[i][2]
              = friction[i].y * linearVelocity[i][1]
        /\ linearVelocity[i] # <<0, 0>>
              => friction[i].x * linearVelocity[i][1]
                   + friction[i].y * linearVelocity[i][2] < 0
        /\ SpeedSq(i) <= RegionSq
              => ForceSq(i) * 4 * RegionSq = mass * mass * SpeedSq(i) * DenSq(i)
        /\ SpeedSq(i) >= RegionSq
              => ForceSq(i) * 4 = mass * mass * DenSq(i)
        /\ ForceSq(i) * 4 <= mass * mass * DenSq(i)
    /\ frictionCalls = 2 =>
        /\ (0 < SpeedSq(1) /\ SpeedSq(1) < SpeedSq(2) /\ SpeedSq(2) <= RegionSq)
              => ForceSq(1) * DenSq(2) < ForceSq(2) * DenSq(1)
        /\ (SpeedSq(1) > RegionSq /\ SpeedSq(2) > RegionSq)
              => ForceSq(1) * DenSq(2) = ForceSq(2) * DenSq(1)

\* one call inside the linear region and one in the saturated region
C12_Witness ==
    /\ frictionCalls = 2
    /\ 0 < SpeedSq(1)
    /\ SpeedSq(1) < RegionSq
    /\ SpeedSq(2) > RegionSq
    /\ linearVelocity[2][1] # 0
    /\ linearVelocity[2][2] # 0
    /\ ForceSq(1) * DenSq(2) < ForceSq(2) * DenSq(1)

(***************************************************************************)
(* Properties of the collect reward, checked under SpecBonus.              *)
(***************************************************************************)
ReturnedOnce == pcTask \in {"returned", "returnedLater"}

NoOverride ==
    /\ timestep <= max_timesteps
    /\ DribbleComplete \/ ~StrictlyOutside

RobotBallDistance ==
    LET dx == robot_position[1] - ball_position[1]
        dy == robot_position[2] - ball_position[2]
    IN  CHOOSE d \in 0..(dx * dx + dy * dy) :
            d * d <= dx * dx + dy * dy /\ (d + 1) * (d + 1) > dx * dx + dy * dy

\* the reward without an override: survival reward, action penalty and one
\* of the three terms
ExpectedBaseReward ==
    IF DribbleComplete THEN TerminalBonus
    ELSE IF dribbling
    THEN Reward(config.survival_reward + ActionPenalty
                  + config.dribbling_reward, 0, 0)
    ELSE Reward(config.survival_reward + ActionPenalty
                  + config.distance_to_ball_coeff * RobotBallDistance, 0, 0)

\* a < b for fractions with positive denominators
FracLess(a, b) == a.num * b.den < b.num * a.den

ExpBase == config.done_reward_exp_base

BothBonus ==
    /\ pcTask = "returnedLater"
    /\ DribbleComplete
    /\ timestep < later_timestep
    /\ later_timestep <= max_timesteps

\* C14 as stated: without an override the reward is the survival reward
\* plus the action penalty plus one of the three terms, and for every
\* configuration with exponent base below 1 the terminal bonus of a later
\* timestep is strictly smaller.
C14_Original ==
    /\ (ReturnedOnce /\ NoOverride) => step_reward = ExpectedBaseReward
    /\ (BothBonus /\ ExpBase[1] < ExpBase[2])
          => FracLess(Value(later_reward, ExpBase), Value(step_reward, ExpBase))

\* C14 amended: the same, the decrease holding for configurations with an
\* exponent base strictly between 0 and 1 and a positive done_reward_coeff.
C14_RewardTerms ==
    /\ (ReturnedOnce /\ NoOverride) => step_reward = ExpectedBaseReward
    /\ (BothBonus /\ 0 < ExpBase[1] /\ ExpBase[1] < ExpBase[2]
          /\ config.done_reward_coeff > 0)
          => FracLess(Value(later_reward, ExpBase), Value(step_reward, ExpBase))

\* dribble completion at two timesteps, the later bonus smaller
C14_Witness ==
    /\ BothBonus
    /\ ExpBase = <<2, 3>>
    /\ config.done_reward_coeff > 0
    /\ timestep > 0
    /\ step_reward = ExpectedBaseReward
    /\ FracLess(Value(later_reward, ExpBase), Value(step_reward, ExpBase))

(***************************************************************************)
(* Properties of a collect episode, checked under SpecEpisode.             *)
(***************************************************************************)
Running == pcTask = "episode" /\ ~done

\* C15: every episode ends: while done has not been returned the timestep
\* counter has not passed max_timesteps + 1 (the step called with a counter
\* above max_timesteps returns done), and a running episode always reaches
\* done.
C15_EpisodeTerminates ==
    /\ [](Running => timestep <= max_timesteps + 1)
    /\ (Running ~> done)

\* an episode that ran into the time limit
C15_Witness ==
    /\ pcTask = "episode"
    /\ done
    /\ ~got_reward
    /\ timestep = max_timesteps + 2
    /\ step_reward = ZeroReward

(***************************************************************************)
(* Properties of task_reset, checked under SpecTaskReset.                  *)
(***************************************************************************)

\* C16: after task_reset both velocity components are within 1.0; the ball
\* is not strictly inside a wall's 1.0 buffer while moving toward that wall
\* (a ball that was there has been moved onto the buffer line) and within
\* the buffer its speed toward the wall is at most 0.3; the ball is inside
\* the field; a second task_reset changes nothing.
C16_TaskReset ==
    /\ taskResets >= 1 =>
        /\ state.BALL_DX >= 0 - 10 /\ state.BALL_DX <= 10
        /\ state.BALL_DY >= 0 - 10 /\ state.BALL_DY <= 10
        /\ ~(state.BALL_X < FIELD_MIN_X + 4 /\ state.BALL_DX < 0)
        /\ ~(state.BALL_X > FIELD_MAX_X - 4 /\ state.BALL_DX > 0)
        /\ ~(state.BALL_Y < FIELD_MIN_Y + 4 /\ state.BALL_DY < 0)
        /\ ~(state.BALL_Y > FIELD_MAX_Y - 4 /\ state.BALL_DY > 0)
        /\ state.BALL_X <= FIELD_MIN_X + 4 => state.BALL_DX >= 0 - 3
        /\ state.BALL_X >= FIELD_MAX_X - 4 => state.BALL_DX <= 3
        /\ state.BALL_Y <= FIELD_MIN_Y + 4 => state.BALL_DY >= 0 - 3
        /\ state.BALL_Y >= FIELD_MAX_Y - 4 => state.BALL_DY <= 3
        /\ state.BALL_X >= FIELD_MIN_X /\ state.BALL_X <= FIELD_MAX_X
        /\ state.BALL_Y >= FIELD_MIN_Y /\ state.BALL_Y <= FIELD_MAX_Y
    /\ taskResets = 1 =>
        /\ (state_before.BALL_X < FIELD_MIN_X + 4 /\ state_before.BALL_DX < 0)
              => state.BALL_X = FIELD_MIN_X + 4
        /\ (state_before.BALL_X > FIELD_MAX_X - 4 /\ state_before.BALL_DX > 0)
              => state.BALL_X = FIELD_MAX_X - 4
        /\ (state_before.BALL_Y < FIELD_MIN_Y + 4 /\ state_before.BALL_DY < 0)
              => state.BALL_Y = FIELD_MIN_Y + 4
        /\ (state_before.BALL_Y > FIELD_MAX_Y - 4 /\ state_before.BALL_DY > 0)
              => state.BALL_Y = FIELD_MAX_Y - 4
    /\ taskResets = 2 => state = state_before

\* a fast ball next to the left wall and above the upper buffer line, moving
\* toward both, has been moved and slowed
C16_Witness ==
    /\ taskResets = 1
    /\ state_before.BALL_X = FIELD_MIN_X
    /\ state_before.BALL_DX < 0 - 10
    /\ state_before.BALL_Y = FIELD_MAX_Y
    /\ state_before.BALL_DY > 3
    /\ state = [BALL_X |-> FIELD_MIN_X + 4, BALL_Y |-> FIELD_MAX_Y - 4,
                BALL_DX |-> 0 - 3, BALL_DY |-> 3]

====
